---------------------------- MODULE Spec2Model ----------------------------
(***************************************************************************)
(* A model of the AS608 fingerprint scanner script (src/attendance.py):    *)
(* the packet framing of AS608Serial, the serial transport it talks over,  *)
(* and the capture workflow of AS608FingerprintScanner.                    *)
(*                                                                         *)
(* Beside it, capture_image() of src/camera.py and the recording flag of   *)
(* CameraControl (src/camera_control.py).                                  *)
(*                                                                         *)
(* The specifications of the module:                                       *)
(*   SpecCodec  the packet codec as a pure function: _send_packet applied  *)
(*              to inputs drawn from bounded sets, and _read_packet fed    *)
(*              with the bytes written, intact or with one bit flipped,    *)
(*              or with a header and body of the sensor's making;          *)
(*   Spec       the program main() runs on the serial path                 *)
(*              (CIRCUITPYTHON_AVAILABLE = False), one action per sensor   *)
(*              command round trip; FairSpec is Spec with weak fairness;   *)
(*   SpecCamera    capture_image() of camera.py, statement by statement;   *)
(*   SpecRecorder  start_recording / stop_recording of one CameraControl   *)
(*                 called from several threads.                            *)
(***************************************************************************)
EXTENDS Integers, Sequences, FiniteSets, TLC

(***************************************************************************)
(* Program constants of class AS608Serial.                                 *)
(***************************************************************************)
VERIFYPASSWORD == 19
GETIMAGE == 1
IMAGE2TZ == 2
IMGUPLOAD == 10
READSYSPARAM == 15
OK == 0
PACKETRECEIVEERR == 1
NOFINGER == 2
IMAGEFAIL == 3
\* packet types used on the wire
COMMANDPACKET == 1
ACKPACKET == 7
\* the two preamble bytes 0xEF 0x01 and the header size read by _read_packet
MAGIC0 == 239
MAGIC1 == 1
HEADERLEN == 9
\* self.address = [0xFF, 0xFF, 0xFF, 0xFF]
address == <<255, 255, 255, 255>>

(***************************************************************************)
(* Bounds of the model.                                                    *)
(***************************************************************************)
\* longest payload enumerated byte by byte in SpecCodec
MaxPayload == 2
\* length of the one long all-0xFF payload, whose raw checksum sum exceeds 0xFFFF
LongLen == 257
\* largest declared length of the headers fed to _read_packet in SpecCodec
\* beside the lengths of the drawn payload
MaxDeclared == 3

(***************************************************************************)
(* Sequence helpers (Python slicing).                                      *)
(***************************************************************************)
Min(a, b) == IF a < b THEN a ELSE b

\* s[:n]
Take(s, n) == IF n <= 0 THEN <<>> ELSE SubSeq(s, 1, Min(n, Len(s)))

\* s[n:]
Drop(s, n) == IF n >= Len(s) THEN <<>> ELSE SubSeq(s, n + 1, Len(s))

\* sum(s): the built-in sum over a list of ints (arbitrary precision, so the
\* order of the additions does not matter; the halving keeps the evaluation
\* shallow on long lists)
RECURSIVE SumRange(_, _, _)
SumRange(s, lo, hi) ==
    IF lo > hi THEN 0
    ELSE IF lo = hi THEN s[lo]
    ELSE LET mid == (lo + hi) \div 2
         IN  SumRange(s, lo, mid) + SumRange(s, mid + 1, hi)

SumSeq(s) == SumRange(s, 1, Len(s))

\* bytes(packet) raises ValueError unless every element is in range(256)
IsBytes(s) == \A i \in 1..Len(s) : s[i] \in 0..255

(***************************************************************************)
(* AS608Serial._send_packet: the list handed to bytes() and uart.write.    *)
(***************************************************************************)
\* [(len(data) + 2) >> 8, (len(data) + 2) & 0xFF]
length_bytes_no_checksum(data) == <<Len(data) \div 256, Len(data) % 256>>

length_bytes(data) == <<(Len(data) + 2) \div 256, (Len(data) + 2) % 256>>

\* packet.append((checksum >> 8) & 0xFF); packet.append(checksum & 0xFF)
checksum_bytes_unmasked(checksum) == <<checksum \div 256, checksum % 256>>

checksum_bytes(checksum) == <<(checksum \div 256) % 256, checksum % 256>>

send_packet(addr, packet_type, data) ==
    LET packet   == <<MAGIC0, MAGIC1>> \o addr \o <<packet_type>>
                      \o length_bytes(data) \o data
        checksum == SumSeq(Drop(packet, 6))
    IN  packet \o checksum_bytes(checksum)

(***************************************************************************)
(* The serial port.  uart.read(n) (timeout=1) returns n bytes once n are   *)
(* there and, on timeout, the fewer that have arrived; buf is what arrives *)
(* before the timeouts of the packet being read.  The bytes not returned   *)
(* stay in the port's input buffer.                                        *)
(***************************************************************************)
uart_read(buf, n) == [out |-> Take(buf, n), rx |-> Drop(buf, n)]

(***************************************************************************)
(* AS608Serial._read_packet.  The result is a record: none is TRUE for the *)
(* return value (None, None); header and nreads record what was read.      *)
(* fault names the uart.read call that raises ("none", "header", "body");  *)
(* the bare except maps the exception to (None, None).                     *)
(***************************************************************************)
NoPacket(header, rx1, nreads) ==
    [none |-> TRUE, ptype |-> -1, data |-> <<>>, header |-> header,
     rx |-> rx1, nreads |-> nreads]

\* header[0] != 0xEF or header[1] != 0x01
bad_magic_both(header) == header[1] # MAGIC0 /\ header[2] # MAGIC1

bad_magic(header) == header[1] # MAGIC0 \/ header[2] # MAGIC1

\* list(data[:-2])
strip_checksum_one(data) == Take(data, Len(data) - 1)

strip_checksum(data) == Take(data, Len(data) - 2)

\* length = (header[7] << 8) | header[8]
declared_length_little_endian(header) == (header[9] * 256) + header[8]

declared_length(header) == (header[8] * 256) + header[9]

\* len(data) < length
short_body_empty_only(data, length) == Len(data) = 0 /\ length > 0

short_body(data, length) == Len(data) < length

read_packet(buf, fault) ==
    IF fault = "header" THEN NoPacket(<<>>, buf, 1)
    ELSE
    LET r1     == uart_read(buf, HEADERLEN)
        header == r1.out
    IN  IF Len(header) < HEADERLEN THEN NoPacket(header, r1.rx, 1)
        ELSE IF bad_magic(header) THEN NoPacket(header, r1.rx, 1)
        ELSE
        LET packet_type == header[7]
            length      == declared_length(header)
            r2          == uart_read(r1.rx, length)
            data        == r2.out
        IN  IF fault = "body" THEN NoPacket(header, r1.rx, 2)
            ELSE IF short_body(data, length) THEN NoPacket(header, r2.rx, 2)
            ELSE [none |-> FALSE, ptype |-> packet_type,
                  data |-> strip_checksum(data), header |-> header,
                  rx |-> r2.rx, nreads |-> 2]

(***************************************************************************)
(* AS608Serial.download_image: the placeholder gradient, value (x + y) %   *)
(* 256 appended row by row.  dummy_pixels(n) is the list after n appends.  *)
(***************************************************************************)
WIDTH == 256
HEIGHT == 288

dummy_pixels(n) ==
    [i \in 1..n |-> (((i - 1) % WIDTH) + ((i - 1) \div WIDTH)) % 256]

(***************************************************************************)
(* State of the codec specification (SpecCodec).                           *)
(*   cpc    "idle" -> "sent" | "raised" | "fed",                           *)
(*          "sent" -> "looped" | "mutated"                                 *)
(*   cAddr, cType, cData   the arguments of _send_packet                   *)
(*   cWire  the bytes _send_packet wrote                                   *)
(*   cRx    the bytes the port then delivers to _read_packet               *)
(*   cOut   what _read_packet returned                                     *)
(***************************************************************************)
VARIABLES cpc, cAddr, cType, cData, cWire, cRx, cOut

cvars == <<cpc, cAddr, cType, cData, cWire, cRx, cOut>>

(***************************************************************************)
(* State of the program (Spec).                                            *)
(*   pc            where main() stands                                     *)
(*   finger        scanner.finger: "None" or "AS608Serial"                 *)
(*   rx            the serial port's input buffer: bytes arrived, unread   *)
(*   step          the operation that ran last                             *)
(*   written       the bytes the last command handed to uart.write (<<>>   *)
(*                 when the write raised)                                  *)
(*   pkt           what the last command's _read_packet read and returned  *)
(*   status        the last return value of get_image / image_2_tz         *)
(*                 (step, written, pkt and status describe the command     *)
(*                 that ran last; the menu prompt clears them)             *)
(*   verified      the return value of verify_password                     *)
(*   appended      the number of values in finger.image_buffer, which is   *)
(*                 dummy_pixels(appended): download_image is the only      *)
(*                 writer and appends the gradient in order                *)
(*   download_ret  the last return value of download_image (-1: no call)   *)
(*   files         image files written by the current save_fingerprint_    *)
(*                 image call                                              *)
(*   saved         the number of values put into the image that was last   *)
(*                 written to a file (-1: no file written yet)             *)
(*   scan_ret      the return value of scan_and_save_fingerprint ("none"   *)
(*                 while it runs and once main has dropped it)             *)
(*   polls         get_image calls made by the current wait_for_finger     *)
(*   faultPoll     the poll of the current wait_for_finger call during     *)
(*                 which the transport first raised (0: none)              *)
(*   calls         the calls the last command made on the transport, in    *)
(*                 order: "write", "read9" (uart.read(9)), "readN"         *)
(*                 (uart.read(length)), then "raise" when the last of them *)
(*                 raised                                                  *)
(*   answer        the bytes the sensor sent in answer to the last command *)
(*                 that arrived before the command's reads timed out       *)
(*   log           the commands of the current scan_and_save_fingerprint   *)
(*                 call, in order: the payload handed to _send_packet and  *)
(*                 whether the status returned was OK (of the polls of     *)
(*                 wait_for_finger the last MaxPolls are kept)             *)
(***************************************************************************)
VARIABLES pc, finger, rx, written, pkt, status, verified, appended,
          download_ret, files, saved, scan_ret, step, polls, faultPoll,
          calls, answer, log

mvars == <<pc, finger, rx, written, pkt, status, verified, appended,
           download_ret, files, saved, scan_ret, step, polls, faultPoll,
           calls, answer, log>>

(***************************************************************************)
(* State of capture_image() of src/camera.py (SpecCamera).                 *)
(*   kpc           the statement capture_image() stands at                 *)
(*   executed      the statements executed so far, in order                *)
(*   pending       the exception in flight (or, at "escaped", the one that *)
(*                 left the function): exc is its class, origin the block  *)
(*                 that raised it                                          *)
(***************************************************************************)
VARIABLES kpc, executed, pending

kvars == <<kpc, executed, pending>>

(***************************************************************************)
(* State of a CameraControl object of src/camera_control.py shared by      *)
(* several threads (SpecRecorder).                                         *)
(*   th_pc         per thread, the statement of start_recording /          *)
(*                 stop_recording it stands at ("idle": in neither)        *)
(*   recording     self.recording                                          *)
(*   encoding      the camera has an encoder that was started and not yet  *)
(*                 stopped                                                 *)
(*   double_start  camera.start_encoder was invoked while encoding         *)
(*   orphan_stop   camera.stop_encoder was invoked while not encoding      *)
(***************************************************************************)
VARIABLES th_pc, recording, encoding, double_start, orphan_stop

rvars == <<th_pc, recording, encoding, double_start, orphan_stop>>

vars == <<cvars, mvars, kvars, rvars>>

\* threads that call into one CameraControl
MaxThreads == 2
Threads == 1..MaxThreads

NoException == [exc |-> "none", origin |-> "none"]

\* capture_image() not called
CameraIdle ==
    /\ kpc = "off"
    /\ executed = <<>>
    /\ pending = NoException

\* no CameraControl constructed
RecorderIdle ==
    /\ th_pc = [t \in Threads |-> "off"]
    /\ recording = FALSE
    /\ encoding = FALSE
    /\ double_start = FALSE
    /\ orphan_stop = FALSE

\* the view of a _read_packet result kept in pkt
PktView(p) ==
    [none |-> p.none, ptype |-> p.ptype, data |-> p.data,
     header |-> p.header, nreads |-> p.nreads]

NoRead == PktView(NoPacket(<<>>, <<>>, 0))

\* the program before main() runs
ProgramIdle ==
    /\ pc = "start"
    /\ finger = "None"
    /\ rx = <<>>
    /\ written = <<>>
    /\ pkt = NoRead
    /\ status = -1
    /\ verified = "unset"
    /\ appended = 0
    /\ download_ret = -1
    /\ files = 0
    /\ saved = -1
    /\ scan_ret = "none"
    /\ step = "none"
    /\ polls = 0
    /\ faultPoll = 0
    /\ calls = <<>>
    /\ answer = <<>>
    /\ log = <<>>

\* the codec specification before any input is drawn
CodecIdle ==
    /\ cpc = "off"
    /\ cAddr = address
    /\ cType = COMMANDPACKET
    /\ cData = <<>>
    /\ cWire = <<>>
    /\ cRx = <<>>
    /\ cOut = NoPacket(<<>>, <<>>, 0)

(***************************************************************************)
(* SpecCodec: the codec applied to drawn inputs.                           *)
(***************************************************************************)
ByteSamples == {0, 1, 19, 255}
Addresses == {address, <<0, 0, 0, 1>>, <<18, 52, 86, 120>>}
PacketTypes == {1, 2, 7, 8}

Payloads ==
    UNION {[1..n -> ByteSamples] : n \in 0..MaxPayload}
      \cup {[i \in 1..LongLen |-> 255]}

\* byte x with bit b inverted (x ^ (1 << b))
FlipBit(x, b) == IF (x \div (2 ^ b)) % 2 = 1 THEN x - 2 ^ b ELSE x + 2 ^ b

\* positions of a written packet that a mutation may hit: every byte of a
\* short packet; of the long packet the header, the first and last payload
\* byte and the checksum
MutablePositions(w) ==
    IF Len(w) <= HEADERLEN + MaxPayload + 3 THEN 1..Len(w)
    ELSE (1..(HEADERLEN + 1)) \cup ((Len(w) - 2)..Len(w))

CodecInit ==
    /\ cpc = "idle"
    /\ cAddr \in Addresses
    /\ cType \in PacketTypes
    /\ cData \in Payloads
    /\ cWire = <<>>
    /\ cRx = <<>>
    /\ cOut = NoPacket(<<>>, <<>>, 0)
    /\ ProgramIdle
    /\ CameraIdle
    /\ RecorderIdle

\* _send_packet(cType, cData) with self.address = cAddr; bytes() raises
\* ValueError, and nothing is written, when an element is no byte
CSend ==
    /\ cpc = "idle"
    /\ IF IsBytes(send_packet(cAddr, cType, cData))
       THEN cWire' = send_packet(cAddr, cType, cData) /\ cpc' = "sent"
       ELSE cWire' = <<>> /\ cpc' = "raised"
    /\ UNCHANGED <<cAddr, cType, cData, cRx, cOut>>
    /\ UNCHANGED <<mvars, kvars, rvars>>

\* the written bytes come back intact and _read_packet reads them
CLoopback ==
    /\ cpc = "sent"
    /\ cRx' = cWire
    /\ cOut' = read_packet(cWire, "none")
    /\ cpc' = "looped"
    /\ UNCHANGED <<cAddr, cType, cData, cWire>>
    /\ UNCHANGED <<mvars, kvars, rvars>>

\* the written bytes come back with bit b of byte p inverted
CMutate ==
    /\ cpc = "sent"
    /\ \E p \in MutablePositions(cWire), b \in 0..7 :
         /\ cRx' = [cWire EXCEPT ![p] = FlipBit(cWire[p], b)]
         /\ cOut' = read_packet(cRx', "none")
    /\ cpc' = "mutated"
    /\ UNCHANGED <<cAddr, cType, cData, cWire>>
    /\ UNCHANGED <<mvars, kvars, rvars>>

\* a packet header as a sensor frames it: valid magic, the address, the
\* type and the big-endian declared length L
FeedHeader(addr, packet_type, L) ==
    <<MAGIC0, MAGIC1>> \o addr \o <<packet_type, L \div 256, L % 256>>

\* what the port may deliver to one _read_packet call before its reads time
\* out: a header declaring L followed by a prefix of the drawn payload
\* bytes, or the first h bytes of that
Feeds ==
    LET Ls == (0..MaxDeclared) \cup {Len(cData), Len(cData) + 2}
        Ks == {k \in {0, Len(cData) - 1, Len(cData)} : k >= 0}
    IN  UNION {
          LET full == FeedHeader(cAddr, cType, L) \o Take(cData, k)
          IN  {full} \cup {Take(full, h) : h \in {0, 5, HEADERLEN - 1}}
          : L \in Ls, k \in Ks }

\* _read_packet() on bytes that did not come from _send_packet
CFeed ==
    /\ cpc = "idle"
    /\ \E fed \in Feeds :
         /\ cRx' = fed
         /\ cOut' = read_packet(fed, "none")
    /\ cpc' = "fed"
    /\ UNCHANGED <<cAddr, cType, cData, cWire>>
    /\ UNCHANGED <<mvars, kvars, rvars>>

CodecNext == CSend \/ CLoopback \/ CMutate \/ CFeed

SpecCodec == CodecInit /\ [][CodecNext]_vars

(***************************************************************************)
(* Properties of the codec (checked under SpecCodec).                      *)
(***************************************************************************)
\* the big-endian 16-bit encoding of v
BE16(v) == <<v \div 256, v % 256>>

\* packet_type + both length bytes + all payload bytes, before truncation
RawSum(packet_type, data) ==
    packet_type + BE16(Len(data) + 2)[1] + BE16(Len(data) + 2)[2] + SumSeq(data)

\* C1: the bytes _send_packet writes are 0xEF 0x01, the 4 address bytes, the
\* packet type, the big-endian 16-bit len(payload)+2, the payload, then the
\* big-endian 16-bit checksum (type + length bytes + payload bytes) mod 65536,
\* for every drawn address, type and payload: the call never raises.
C1_WireFormat ==
    cpc \in {"sent", "raised", "looped", "mutated"} =>
        /\ cpc # "raised"
        /\ cWire = <<239, 1>> \o cAddr \o <<cType>> \o BE16(Len(cData) + 2)
                     \o cData \o BE16(RawSum(cType, cData) % 65536)

\* a packet was written whose raw checksum sum exceeds 0xFFFF, under an
\* address other than the broadcast one
C1_Witness ==
    /\ cpc = "sent"
    /\ RawSum(cType, cData) > 65535
    /\ cAddr # address
    /\ Len(cWire) = HEADERLEN + LongLen + 2

\* the bytes delivered to _read_packet form a complete packet: valid magic
\* and exactly the declared number of bytes after the header
CompletePacket(b) ==
    /\ Len(b) >= HEADERLEN + 2
    /\ b[1] = 239 /\ b[2] = 1
    /\ b[8] * 256 + b[9] = Len(b) - HEADERLEN

\* the trailing two bytes equal the truncated sum of type, length and payload
ChecksumMatches(b) ==
    SubSeq(b, Len(b) - 1, Len(b)) = BE16(SumSeq(SubSeq(b, 7, Len(b) - 2)) % 65536)

\* C2: whenever _read_packet receives a complete packet whose trailing two
\* bytes differ from the truncated sum of packet type, length bytes and
\* payload, it reports failure instead of returning a payload.
C2_ChecksumRejected ==
    (cpc \in {"looped", "mutated"} /\ CompletePacket(cRx) /\ ~ChecksumMatches(cRx))
        => cOut.none

\* C3: feeding the bytes _send_packet wrote for (address, type, payload) into
\* _read_packet yields exactly (type, payload).
C3_RoundTrip ==
    cpc = "looped" =>
        /\ ~cOut.none
        /\ cOut.ptype = cType
        /\ cOut.data = cData
        /\ cOut.rx = <<>>

\* a non-empty payload made the round trip
C3_Witness ==
    /\ cpc = "looped"
    /\ Len(cData) = MaxPayload
    /\ cOut.data = cData
    /\ cOut.ptype = cType

\* the length declared by the header of the fed bytes, and the bytes that
\* follow the header
FedLength == cRx[8] * 256 + cRx[9]
FedBody == Drop(cRx, HEADERLEN)

\* C11: when the transport returns fewer than 9 bytes for the header, or
\* fewer bytes than the declared length for the body, _read_packet reports
\* failure and has made no read beyond the one that came back short (one
\* read for a short header, two for a short body).
C11_TruncatedNotRetried ==
    cpc = "fed" =>
        /\ (Len(cRx) < HEADERLEN =>
              /\ cOut.none
              /\ cOut.nreads = 1
              /\ cOut.header = cRx
              /\ cOut.rx = <<>>)
        /\ ((Len(cRx) >= HEADERLEN /\ Len(FedBody) < FedLength) =>
              /\ cOut.none
              /\ cOut.nreads = 2
              /\ cOut.header = Take(cRx, HEADERLEN)
              /\ cOut.rx = <<>>)

\* a header declaring 3 bytes was followed by 2 only, and the read failed
C11_Witness ==
    /\ cpc = "fed"
    /\ Len(cRx) = HEADERLEN + 2
    /\ FedLength = 3
    /\ cOut.none
    /\ cOut.nreads = 2

\* C12: after a header with valid magic _read_packet reads exactly the
\* declared L = header[7]*256 + header[8] further bytes, and when they are
\* all there it returns the header's type with the first L-2 of them as the
\* payload (none of them when L is 0, 1 or 2); the bytes after the first L
\* stay in the port.
C12_DeclaredLengthGoverns ==
    (cpc = "fed" /\ Len(cRx) >= HEADERLEN /\ Len(FedBody) >= FedLength) =>
        /\ ~cOut.none
        /\ cOut.nreads = 2
        /\ cOut.ptype = cType
        /\ cOut.data = Take(FedBody, FedLength - 2)
        /\ Len(cOut.data) = (IF FedLength >= 2 THEN FedLength - 2 ELSE 0)
        /\ cOut.rx = Drop(FedBody, FedLength)

\* a header declaring 1 byte was followed by 2: one was read, the payload
\* returned is empty and the other byte stays in the port
C12_Witness ==
    /\ cpc = "fed"
    /\ Len(cRx) = HEADERLEN + 2
    /\ FedLength = 1
    /\ ~cOut.none
    /\ cOut.data = <<>>
    /\ Len(cOut.rx) = 1

(***************************************************************************)
(* The sensor and the line, as the program's environment.  A scenario is   *)
(* what happens during one command round trip: a fault raised by           *)
(* uart.write or by one of the two uart.read calls, or the bytes the       *)
(* sensor sends in reply and how many of them (intime) arrive before the   *)
(* reads of this command time out; the rest arrives after the command has  *)
(* returned and waits in the input buffer.                                 *)
(***************************************************************************)
\* most bytes the model lets the input buffer and a reply hold together
MaxBuf == 15
\* most polls of one wait_for_finger call that the model counts
MaxPolls == 2

\* an acknowledge packet carrying status code s, as the sensor frames it
Ack(s) == send_packet(address, ACKPACKET, <<s>>)

StatusCodes == {OK, PACKETRECEIVEERR, NOFINGER, IMAGEFAIL}

Replies ==
    {Ack(s) : s \in StatusCodes}
      \cup { [Ack(OK) EXCEPT ![1] = 238],                 \* first magic byte wrong
             [Ack(OK) EXCEPT ![2] = 0],                   \* second magic byte wrong
             [Ack(OK) EXCEPT ![12] = 9],                  \* checksum off by one
             send_packet(address, 2, <<OK>>),             \* a data packet
             send_packet(address, ACKPACKET, <<>>),       \* an ack with no payload
             Take(Ack(OK), 5),                            \* the sensor stops mid-header
             <<>> }                                       \* the sensor stays silent

\* nothing in time, the header alone, everything
Arrivals == {0, HEADERLEN, MaxBuf}

Scenarios ==
    {[fault |-> "write", reply |-> <<>>, intime |-> 0]}
      \cup {[fault |-> f, reply |-> Ack(OK), intime |-> MaxBuf] :
              f \in {"header", "body"}}
      \cup {[fault |-> "none", reply |-> r, intime |-> a] :
              r \in Replies, a \in Arrivals}

\* the sensor sends a reply only when the model's buffer bound has room
Fits(sc) == sc.reply = <<>> \/ Len(rx) + Len(sc.reply) <= MaxBuf

(***************************************************************************)
(* One command: self._send_packet(0x01, data), then self._read_packet().   *)
(* raised is TRUE when uart.write raised, so that _read_packet never ran.  *)
(***************************************************************************)
\* the transport calls of one command: uart.write in _send_packet, then
\* the nreads uart.read calls of _read_packet; a call that raised is the
\* last one and is followed by "raise"
transport_calls_read_first(fault, nreads) ==
    (IF fault = "write" THEN <<"write">>
     ELSE IF nreads = 1 THEN <<"read9", "write">>
     ELSE <<"read9", "write", "readN">>)
      \o (IF fault = "none" THEN <<>> ELSE <<"raise">>)

transport_calls(fault, nreads) ==
    (IF fault = "write" THEN <<"write">>
     ELSE IF nreads = 1 THEN <<"write", "read9">>
     ELSE <<"write", "read9", "readN">>)
      \o (IF fault = "none" THEN <<>> ELSE <<"raise">>)

Exchange(data, sc) ==
    IF sc.fault = "write"
    THEN [raised |-> TRUE, written |-> <<>>, pkt |-> NoRead, rx |-> rx,
          calls |-> transport_calls(sc.fault, 0), answer |-> <<>>]
    ELSE LET p == read_packet(rx \o Take(sc.reply, sc.intime), sc.fault)
         IN  [raised |-> FALSE,
              written |-> send_packet(address, COMMANDPACKET, data),
              pkt |-> PktView(p),
              rx |-> p.rx \o Drop(sc.reply, sc.intime),
              calls |-> transport_calls(sc.fault, p.nreads),
              answer |-> Take(sc.reply, sc.intime)]

\* packet_type == 0x07 and data
is_ack(x) == ~x.raised /\ ~x.pkt.none /\ x.pkt.ptype = ACKPACKET /\ x.pkt.data # <<>>

\* verify_password(): True iff the reply is an ack whose first byte is OK
verify_password_ret(x) == IF is_ack(x) /\ x.pkt.data[1] = OK THEN "True" ELSE "False"

\* get_image() / image_2_tz(): data[0] of an ack, else IMAGEFAIL
status_ret(x) == IF is_ack(x) THEN x.pkt.data[1] ELSE IMAGEFAIL

\* the transport part of a command's effect
Transport(x) ==
    /\ written' = x.written
    /\ pkt' = x.pkt
    /\ rx' = x.rx
    /\ calls' = x.calls
    /\ answer' = x.answer

\* an entry of the command log, and the log after one more poll
logged(data, st) == [cmd |-> data, ok |-> (st = OK)]

log_poll(lg, e) ==
    IF Len(lg) < MaxPolls THEN Append(lg, e) ELSE Append(Tail(lg), e)

(***************************************************************************)
(* Spec: main() on the serial path.                                        *)
(***************************************************************************)
\* appends of download_image's loop after which the model lets an
\* exception interrupt it (the bare except then returns IMAGEFAIL)
InterruptPoints == {1, WIDTH * HEIGHT - 1}

Init ==
    /\ ProgramIdle
    /\ CodecIdle
    /\ CameraIdle
    /\ RecorderIdle

\* main(): AS608FingerprintScanner() -> setup_uart(): serial.Serial(...)
\* opens the port or raises.  When it raises, finger stays None and main
\* returns.
OpenPort ==
    /\ pc = "start"
    /\ \E opened \in BOOLEAN :
         IF opened
         THEN finger' = "AS608Serial" /\ pc' = "verify"
         ELSE finger' = finger /\ pc' = "exited"
    /\ step' = "open"
    /\ UNCHANGED <<rx, written, pkt, status, verified, appended,
                   download_ret, files, saved, scan_ret, polls, faultPoll,
                   calls, answer, log>>
    /\ UNCHANGED <<cvars, kvars, rvars>>

\* setup_uart(): self.finger.verify_password().  On False setup_uart
\* returns False; __init__ ignores that, finger is set, and main goes on to
\* get_sensor_status().
VerifyPassword ==
    /\ pc = "verify"
    /\ \E sc \in Scenarios :
         /\ Fits(sc)
         /\ LET x == Exchange(<<VERIFYPASSWORD, 0, 0, 0, 0>>, sc)
            IN  /\ Transport(x)
                /\ verified' = verify_password_ret(x)
                /\ pc' = IF verify_password_ret(x) = "True" THEN "sysparam" ELSE "status"
    /\ step' = "verify_password"
    /\ UNCHANGED <<finger, status, appended, download_ret, files,
                   saved, scan_ret, polls, faultPoll,
                   log>>
    /\ UNCHANGED <<cvars, kvars, rvars>>

\* read_sysparam(), called by setup_uart() after a verified password
\* (pc = "sysparam") and by get_sensor_status() (pc = "status"); the object
\* it returns is only printed
ReadSysparam ==
    /\ pc \in {"sysparam", "status"}
    /\ \E sc \in Scenarios :
         /\ Fits(sc)
         /\ Transport(Exchange(<<READSYSPARAM>>, sc))
    /\ pc' = IF pc = "sysparam" THEN "status" ELSE "menu"
    /\ step' = "read_sysparam"
    /\ UNCHANGED <<finger, status, verified, appended, download_ret, files,
                   saved, scan_ret, polls, faultPoll,
                   log>>
    /\ UNCHANGED <<cvars, kvars, rvars>>

\* the menu loop of main(): '1' scan_and_save_fingerprint(), '2'
\* get_sensor_status(), '3' break (any other input changes nothing)
MenuChoice ==
    /\ pc = "menu"
    /\ \E choice \in {"1", "2", "3"} :
         pc' = CASE choice = "1" -> "wait"
                 [] choice = "2" -> "status"
                 [] choice = "3" -> "exited"
    /\ step' = "menu"
    /\ written' = <<>>
    /\ pkt' = NoRead
    /\ status' = -1
    /\ scan_ret' = "none"
    /\ files' = 0
    /\ polls' = 0
    /\ faultPoll' = 0
    /\ calls' = <<>>
    /\ answer' = <<>>
    /\ log' = <<>>
    /\ UNCHANGED <<finger, rx, verified, appended, download_ret, saved>>
    /\ UNCHANGED <<cvars, kvars, rvars>>

\* wait_for_finger(): one iteration of  while True: result = get_image();
\* if result == OK: return True; time.sleep(0.1)
WaitForFingerPoll ==
    /\ pc = "wait"
    /\ \E sc \in Scenarios :
         /\ Fits(sc)
         /\ LET x == Exchange(<<GETIMAGE>>, sc)
            IN  /\ Transport(x)
                /\ status' = status_ret(x)
                /\ pc' = IF status_ret(x) = OK THEN "capture_get" ELSE "wait"
                /\ log' = log_poll(log, logged(<<GETIMAGE>>, status_ret(x)))
         /\ polls' = Min(polls + 1, MaxPolls)
         /\ faultPoll' = IF faultPoll = 0 /\ sc.fault # "none"
                         THEN Min(polls + 1, MaxPolls) ELSE faultPoll
    /\ step' = "wait_for_finger"
    /\ UNCHANGED <<finger, verified, appended, download_ret, files,
                   saved, scan_ret>>
    /\ UNCHANGED <<cvars, kvars, rvars>>

\* capture_fingerprint_template(): result = get_image(); not OK -> (False,
\* ...) and scan_and_save_fingerprint returns False
CaptureGetImage ==
    /\ pc = "capture_get"
    /\ \E sc \in Scenarios :
         /\ Fits(sc)
         /\ LET x == Exchange(<<GETIMAGE>>, sc)
            IN  /\ Transport(x)
                /\ status' = status_ret(x)
                /\ log' = Append(log, logged(<<GETIMAGE>>, status_ret(x)))
                /\ pc' = IF status_ret(x) = OK THEN "capture_tz" ELSE "menu"
                /\ scan_ret' = IF status_ret(x) = OK THEN scan_ret ELSE "False"
    /\ step' = "capture_get_image"
    /\ UNCHANGED <<finger, verified, appended, download_ret, files,
                   saved, polls, faultPoll>>
    /\ UNCHANGED <<cvars, kvars, rvars>>

\* capture_fingerprint_template(): if self.finger.image_2_tz(1) != ok_status:
\* return False, ...
after_image_2_tz_unchecked(st) == "save_get"

after_image_2_tz(st) == IF st # OK THEN "menu" ELSE "save_get"

CaptureImage2Tz ==
    /\ pc = "capture_tz"
    /\ \E sc \in Scenarios :
         /\ Fits(sc)
         /\ LET x == Exchange(<<IMAGE2TZ, 1>>, sc)
            IN  /\ Transport(x)
                /\ status' = status_ret(x)
                /\ log' = Append(log, logged(<<IMAGE2TZ, 1>>, status_ret(x)))
                /\ pc' = after_image_2_tz(status_ret(x))
                /\ scan_ret' = IF after_image_2_tz(status_ret(x)) = "menu"
                               THEN "False" ELSE scan_ret
    /\ step' = "image_2_tz"
    /\ UNCHANGED <<finger, verified, appended, download_ret, files,
                   saved, polls, faultPoll>>
    /\ UNCHANGED <<cvars, kvars, rvars>>

\* save_fingerprint_image(): if self.finger.get_image() != ok_status: return False
after_get_image_unchecked(st) == "save_download"

after_get_image(st) == IF st # OK THEN "menu" ELSE "save_download"

\* save_fingerprint_image(): if self.finger.download_image() != ok_status: return False
after_download(st) == IF st # OK THEN "menu" ELSE "save_write"

\* save_fingerprint_image() up to its get_image(): os.makedirs() creates the
\* output directory or raises (dirOk), and then get_image() decides
SaveGetImage ==
    /\ pc = "save_get"
    /\ \E dirOk \in BOOLEAN :
         IF ~dirOk
         THEN /\ pc' = "menu"
              /\ scan_ret' = "False"
              /\ step' = "makedirs"
              /\ UNCHANGED <<rx, written, pkt, status, calls, answer, log>>
         ELSE \E sc \in Scenarios :
                /\ Fits(sc)
                /\ LET x == Exchange(<<GETIMAGE>>, sc)
                   IN  /\ Transport(x)
                       /\ status' = status_ret(x)
                       /\ log' = Append(log, logged(<<GETIMAGE>>, status_ret(x)))
                       /\ pc' = after_get_image(status_ret(x))
                       /\ scan_ret' = IF after_get_image(status_ret(x)) = "menu"
                                      THEN "False" ELSE scan_ret
                /\ step' = "save_get_image"
    /\ UNCHANGED <<finger, verified, appended, download_ret, files,
                   saved, polls, faultPoll>>
    /\ UNCHANGED <<cvars, kvars, rvars>>

\* AS608Serial.download_image(): image_buffer is reset and filled by the
\* two loops; interrupt < 0: the loops complete and OK is returned;
\* otherwise an exception ends them after interrupt appends and the bare
\* except returns IMAGEFAIL
download_image_short(interrupt) ==
    IF interrupt < 0
    THEN [appended |-> WIDTH * (HEIGHT - 1), ret |-> OK]
    ELSE [appended |-> interrupt, ret |-> IMAGEFAIL]

download_image(interrupt) ==
    IF interrupt < 0
    THEN [appended |-> WIDTH * HEIGHT, ret |-> OK]
    ELSE [appended |-> interrupt, ret |-> IMAGEFAIL]

DownloadImage ==
    /\ pc = "save_download"
    /\ \E interrupt \in {-1} \cup InterruptPoints :
         LET d == download_image(interrupt)
         IN  /\ appended' = d.appended
             /\ download_ret' = d.ret
             /\ pc' = after_download(d.ret)
             /\ scan_ret' = IF after_download(d.ret) = "menu" THEN "False" ELSE scan_ret
    /\ step' = "download_image"
    /\ UNCHANGED <<finger, rx, written, pkt, status, verified, files,
                   saved, polls, faultPoll,
                   calls, answer, log>>
    /\ UNCHANGED <<cvars, kvars, rvars>>

\* the number of values put into the image: those of image_buffer when it
\* is non-empty, else those of the test pattern (height * width appends)
pixels_to_save(n) == IF n # 0 THEN n ELSE WIDTH * HEIGHT

\* save_fingerprint_image() after the download: img.putdata(...), then
\* img.save() of the .bmp and of the .png; a save that raises makes the
\* function return False
WriteImage ==
    /\ pc = "save_write"
    /\ \E outcome \in {"both", "bmp_only", "neither"} :
         /\ files' = CASE outcome = "both" -> 2
                       [] outcome = "bmp_only" -> 1
                       [] outcome = "neither" -> 0
         /\ saved' = IF outcome = "neither" THEN saved
                     ELSE pixels_to_save(appended)
         /\ scan_ret' = IF outcome = "both" THEN "True" ELSE "False"
    /\ pc' = "menu"
    /\ step' = "write_image"
    /\ UNCHANGED <<finger, rx, written, pkt, status, verified, appended,
                   download_ret, polls, faultPoll,
                   calls, answer, log>>
    /\ UNCHANGED <<cvars, kvars, rvars>>

\* finger.image_buffer and the data of the image last written
image_buffer == dummy_pixels(appended)
saved_image == IF saved < 0 THEN <<>> ELSE dummy_pixels(saved)

Next ==
    \/ OpenPort
    \/ VerifyPassword
    \/ ReadSysparam
    \/ MenuChoice
    \/ WaitForFingerPoll
    \/ CaptureGetImage
    \/ CaptureImage2Tz
    \/ SaveGetImage
    \/ DownloadImage
    \/ WriteImage

Spec == Init /\ [][Next]_vars

\* the program keeps running: every uart.read returns within its timeout
\* and time.sleep(0.1) returns, so a wait_for_finger loop that can poll does
FairSpec == Spec /\ WF_vars(WaitForFingerPoll)

(***************************************************************************)
(* Properties of the program (checked under Spec, C8 under FairSpec).      *)
(***************************************************************************)
\* C4: the packet verify_password sends (address FF FF FF FF, type 0x01,
\* payload [0x13, 0, 0, 0, 0]) is exactly the 16 bytes
\* EF 01 FF FF FF FF 01 00 07 13 00 00 00 00 00 1B.
C4_GoldenVector ==
    (step = "verify_password" /\ written # <<>>) =>
        written = <<239, 1, 255, 255, 255, 255, 1, 0, 7, 19, 0, 0, 0, 0, 0, 27>>

\* verify_password has written its 16-byte packet
C4_Witness ==
    /\ step = "verify_password"
    /\ Len(written) = 16
    /\ written[10] = VERIFYPASSWORD
    /\ written[16] = 27

\* C5: in save_fingerprint_image the download step runs only right after a
\* get-image that returned OK, the image is written only right after a
\* download that returned OK, and when either status is not OK the
\* operation returns False with no later step and no image file written.
C5_CaptureShortCircuits ==
    [][ /\ (step' = "download_image" =>
              pc = "save_download" /\ step = "save_get_image" /\ status = OK)
        /\ (step' = "write_image" =>
              pc = "save_write" /\ step = "download_image" /\ download_ret = OK)
        /\ ((files' > files \/ saved' # saved) => step' = "write_image")
        /\ ((step' = "save_get_image" /\ status' # OK) =>
              pc' = "menu" /\ scan_ret' = "False" /\ files' = 0 /\ saved' = saved)
        /\ ((step' = "download_image" /\ download_ret' # OK) =>
              pc' = "menu" /\ scan_ret' = "False" /\ files' = 0 /\ saved' = saved)
      ]_vars

\* save_fingerprint_image has returned False on a get-image that was
\* answered with a status other than OK, and wrote no file
C5_Witness ==
    /\ step = "save_get_image"
    /\ ~pkt.none
    /\ status = NOFINGER
    /\ pc = "menu"
    /\ scan_ret = "False"
    /\ files = 0

\* C6: after get-image returned OK the download step sends the
\* download-image command (opcode 0x0A), and the image buffer ends with the
\* payload of the terminating packet (type 0x08) it read from the transport.
C6_ImageFromSensor ==
    (step = "download_image" /\ download_ret = OK) =>
        /\ Len(written) > HEADERLEN
        /\ written[HEADERLEN + 1] = IMGUPLOAD
        /\ ~pkt.none
        /\ pkt.ptype = 8

\* C7: whenever download_image has returned OK the image buffer holds
\* exactly 256*288 = 73728 values, every image written was built from
\* exactly 73728 values, and a download that left another number of values
\* was reported as a failure and ended the operation with False.
C7_NoPartialImage ==
    /\ (download_ret = OK => appended = 73728)
    /\ (saved >= 0 => saved = 73728)
    /\ ((step = "download_image" /\ appended # 73728) =>
          download_ret = IMAGEFAIL /\ pc = "menu" /\ scan_ret = "False" /\ files = 0)

\* an image of 73728 values was downloaded and written to both files
C7_Witness ==
    /\ step = "write_image"
    /\ files = 2
    /\ download_ret = OK
    /\ Len(image_buffer) = 73728
    /\ Len(saved_image) = 73728

\* C8: wait_for_finger returns: a call that is polling eventually stops
\* polling (on a sensor that never answers OK, by its timeout, with False).
C8_WaitTimesOut == (pc = "wait") ~> (pc # "wait")

\* C9: once the transport has raised during a poll of wait_for_finger, that
\* call writes no further get-image command.
C9_FaultNotRetried ==
    (step = "wait_for_finger" /\ faultPoll > 0 /\ polls > faultPoll) => written = <<>>

\* the 9-byte header read by the last command does not start with EF 01
BadMagicRead ==
    /\ Len(pkt.header) = HEADERLEN
    /\ (pkt.header[1] # 239 \/ pkt.header[2] # 1)

\* C10: whenever the 9-byte header read by _read_packet does not start with
\* 0xEF 0x01, _read_packet returns (None, None) without a body read, and the
\* command built on it reports no success: verify_password False, get_image
\* and image_2_tz not OK, wait_for_finger keeps waiting.
C10_BadMagicRejected ==
    BadMagicRead =>
        /\ pkt.none
        /\ pkt.nreads = 1
        /\ (step = "verify_password" => verified = "False" /\ pc = "status")
        /\ (step \in {"wait_for_finger", "capture_get_image", "image_2_tz",
                      "save_get_image"} => status = IMAGEFAIL)
        /\ (step = "wait_for_finger" => pc = "wait")
        /\ (step \in {"capture_get_image", "image_2_tz", "save_get_image"} =>
              pc = "menu" /\ scan_ret = "False")

\* a get-image poll read a header whose first byte is right and whose second
\* byte is wrong, and reported IMAGEFAIL
C10_Witness ==
    /\ step = "wait_for_finger"
    /\ Len(pkt.header) = HEADERLEN
    /\ pkt.header[1] = 239
    /\ pkt.header[2] # 1
    /\ pkt.header[7] = ACKPACKET
    /\ status = IMAGEFAIL

\* the steps that are one sensor command, and those whose command returns a
\* status code (get_image, image_2_tz)
CommandSteps ==
    {"verify_password", "read_sysparam", "wait_for_finger",
     "capture_get_image", "image_2_tz", "save_get_image"}
StatusSteps == CommandSteps \ {"verify_password", "read_sysparam"}

\* the last transport call of the last command raised
Raised == calls # <<>> /\ calls[Len(calls)] = "raise"
\* the transport calls the last command made
CallsMade == SelectSeq(calls, LAMBDA c : c # "raise")

\* C13: each of verify_password, read_sysparam, get_image and image_2_tz
\* makes exactly one write, of one command packet (type 0x01), as its first
\* transport call, and then reads at most one reply packet: one 9-byte
\* header read followed by at most one body read, the body read only after
\* a complete header.
C13_OneCommandOneReply ==
    step \in CommandSteps =>
        /\ CallsMade \in {<<"write">>, <<"write", "read9">>,
                          <<"write", "read9", "readN">>}
        /\ Len(CallsMade) = 1 + pkt.nreads
        /\ (written # <<>> =>
              /\ CompletePacket(written)
              /\ written[7] = COMMANDPACKET)
        /\ (written = <<>> => Raised /\ CallsMade = <<"write">>)
        /\ (pkt.nreads = 2 => Len(pkt.header) = HEADERLEN /\ ~bad_magic(pkt.header))

\* image_2_tz wrote its command and then read the header and the body of
\* one reply
C13_Witness ==
    /\ step = "image_2_tz"
    /\ calls = <<"write", "read9", "readN">>
    /\ written[HEADERLEN + 1] = IMAGE2TZ
    /\ ~pkt.none

\* setup_uart failed: the port could not be opened, or verify_password
\* returned False
SetupFailed == (step = "open" /\ pc = "exited") \/ verified = "False"

\* C14: when setup_uart fails (the port cannot be opened, or the password
\* verification fails), scanner.finger is None and main exits: no sensor
\* command follows and the menu is not entered.
C14_FailedInitStops ==
    SetupFailed =>
        /\ finger = "None"
        /\ pc = "exited"
        /\ step \in {"open", "verify_password"}

\* C15: the packet that verify_password, get_image or image_2_tz parses is
\* never made of bytes an earlier command left in the port: whenever one of
\* them has parsed a packet, the port's input buffer was empty when it
\* began.
C15_ReplyOfSameCommand ==
    [][ (step' \in CommandSteps \ {"read_sysparam"} /\ ~pkt'.none) => rx = <<>> ]_vars

\* the bytes r are a complete acknowledge packet (valid magic, type 0x07,
\* as many bytes as declared) with a payload of at least one byte
WellFormedAck(r) ==
    /\ CompletePacket(r)
    /\ r[7] = ACKPACKET
    /\ Len(r) > HEADERLEN + 2

\* C16: get_image and image_2_tz return the first payload byte of the
\* sensor's reply when no call raised and the reply is a well-formed ack
\* with a non-empty payload, and IMAGEFAIL in every other case; and
\* wait_for_finger returns True only when the reply to its last get-image
\* was an ack with status OK.
C16_StatusMapping ==
    /\ (step \in StatusSteps =>
          status = IF ~Raised /\ WellFormedAck(answer)
                   THEN answer[HEADERLEN + 1] ELSE IMAGEFAIL)
    /\ ((step = "wait_for_finger" /\ pc = "capture_get") =>
          WellFormedAck(answer) /\ answer[HEADERLEN + 1] = OK)

\* the position of the first command of the log answered OK (0: none)
FirstOk(lg) ==
    IF \E i \in 1..Len(lg) : lg[i].ok
    THEN CHOOSE i \in 1..Len(lg) : lg[i].ok /\ \A j \in 1..(i - 1) : ~lg[j].ok
    ELSE 0

\* the current run's first OK poll, the two get-image commands after it
\* and the image-to-template command were all written and answered OK
AllAnsweredOk ==
    /\ FirstOk(log) > 0
    /\ Len(log) = FirstOk(log) + 3
    /\ \A i \in FirstOk(log)..Len(log) : log[i].ok

\* C17: the commands of a scan_and_save_fingerprint run are, in order,
\* get-image polls up to the first one answered OK, one more get-image,
\* image-to-template (slot 1) only if that one was answered OK, a third
\* get-image only if image-to-template was answered OK, and nothing more;
\* the run returns True only if all of these were answered OK, and when
\* they were not it returns False with no image file written.
C17_CommandOrder ==
    LET k == FirstOk(log)
        n == Len(log)
    IN  /\ (step \in StatusSteps =>
              /\ n > 0
              /\ written \in {<<>>, send_packet(address, COMMANDPACKET, log[n].cmd)}
              /\ log[n].ok = (status = OK))
        /\ (pc = "wait" => k = 0)
        /\ (pc \in {"capture_get", "capture_tz", "save_get", "save_download",
                    "save_write"} => k > 0)
        /\ \A i \in 1..(IF k = 0 THEN n ELSE k) : log[i].cmd = <<GETIMAGE>>
        /\ (k > 0 =>
              /\ n <= k + 3
              /\ (n >= k + 1 => log[k + 1].cmd = <<GETIMAGE>>)
              /\ (n >= k + 2 => log[k + 2].cmd = <<IMAGE2TZ, 1>> /\ log[k + 1].ok)
              /\ (n >= k + 3 => log[k + 3].cmd = <<GETIMAGE>> /\ log[k + 2].ok))
        /\ (scan_ret = "True" => AllAnsweredOk)
        /\ ((scan_ret = "False" /\ ~AllAnsweredOk) => files = 0)

\* a run returned True after a poll that was not answered OK and four
\* commands that were
C17_Witness ==
    /\ scan_ret = "True"
    /\ files = 2
    /\ Len(log) = 5
    /\ ~log[1].ok
    /\ AllAnsweredOk

(***************************************************************************)
(* SpecCamera: capture_image() of src/camera.py, one action per statement  *)
(* that can raise.  A statement completes ("ok") or raises; what it raises *)
(* is an Exception subclass (a camera library error, an OSError of print)  *)
(* or, when the user interrupts the script, KeyboardInterrupt, which is no *)
(* Exception subclass and is not caught by  except Exception.              *)
(***************************************************************************)
Outcomes == {"ok", "Exception", "KeyboardInterrupt"}
\* time.sleep(2) and time.strftime(...) complete or are interrupted
SleepOutcomes == {"ok", "KeyboardInterrupt"}

CameraInit ==
    /\ kpc = "print_init"
    /\ executed = <<>>
    /\ pending = NoException
    /\ ProgramIdle
    /\ CodecIdle
    /\ RecorderIdle

\* a statement before the try statement: an exception leaves the function
\* at once
BeforeTry(statement, o, next) ==
    /\ kpc' = IF o = "ok" THEN next ELSE "escaped"
    /\ pending' = IF o = "ok" THEN pending ELSE [exc |-> o, origin |-> "before_try"]
    /\ executed' = Append(executed, statement)
    /\ UNCHANGED <<cvars, mvars, rvars>>

\* where control goes when a statement of the try body ends with outcome o:
\* to the next statement, to the except clause (Exception), or straight to
\* the finally block with the exception in flight
after_try(o, next) ==
    IF o = "ok" THEN next
    ELSE IF o = "Exception" THEN "except"
    ELSE "stop_preview"

\* a statement of the try body
InTry(statement, o, next) ==
    /\ kpc' = after_try(o, next)
    /\ pending' = IF o = "ok" THEN pending ELSE [exc |-> o, origin |-> "try"]
    /\ executed' = Append(executed, statement)
    /\ UNCHANGED <<cvars, mvars, rvars>>

\* a statement of the finally block: an exception it raises leaves the
\* function, replacing the one in flight; after the last statement the
\* function returns, or the exception in flight is raised again
InFinally(statement, o, next) ==
    /\ kpc' = IF o # "ok" THEN "escaped"
              ELSE IF next # "end" THEN next
              ELSE IF pending = NoException THEN "returned" ELSE "escaped"
    /\ pending' = IF o = "ok" THEN pending ELSE [exc |-> o, origin |-> "finally"]
    /\ executed' = Append(executed, statement)
    /\ UNCHANGED <<cvars, mvars, rvars>>

\* print("Initializing camera...")
PrintInit ==
    /\ kpc = "print_init"
    /\ \E o \in Outcomes : BeforeTry("print_init", o, "Picamera2")

\* picam2 = Picamera2()
Construct ==
    /\ kpc = "Picamera2"
    /\ \E o \in Outcomes : BeforeTry("Picamera2", o, "start_preview")

\* picam2.start_preview()
StartPreview ==
    /\ kpc = "start_preview"
    /\ \E o \in Outcomes : InTry("start_preview", o, "start")

\* picam2.start()
Start ==
    /\ kpc = "start"
    /\ \E o \in Outcomes : InTry("start", o, "print_wait")

\* print("Camera preview started. ...")
PrintWait ==
    /\ kpc = "print_wait"
    /\ \E o \in Outcomes : InTry("print_wait", o, "sleep")

\* time.sleep(2); timestamp = time.strftime(...); filename = ...
Sleep ==
    /\ kpc = "sleep"
    /\ \E o \in SleepOutcomes : InTry("sleep", o, "print_capturing")

\* print(f"Capturing image and saving to {filename}...")
PrintCapturing ==
    /\ kpc = "print_capturing"
    /\ \E o \in Outcomes : InTry("print_capturing", o, "capture_file")

\* picam2.capture_file(filename)
CaptureFile ==
    /\ kpc = "capture_file"
    /\ \E o \in Outcomes : InTry("capture_file", o, "print_done")

\* print("Image captured successfully!")
PrintDone ==
    /\ kpc = "print_done"
    /\ \E o \in Outcomes : InTry("print_done", o, "stop_preview")

\* except Exception as e: print(f"An error occurred: {e}"): the exception
\* is handled, unless the print raises one of its own
Except ==
    /\ kpc = "except"
    /\ \E o \in Outcomes :
         pending' = IF o = "ok" THEN NoException ELSE [exc |-> o, origin |-> "except"]
    /\ kpc' = "stop_preview"
    /\ executed' = Append(executed, "print_error")
    /\ UNCHANGED <<cvars, mvars, rvars>>

\* finally: picam2.stop_preview()
StopPreview ==
    /\ kpc = "stop_preview"
    /\ \E o \in Outcomes : InFinally("stop_preview", o, "stop")

\* picam2.stop()
Stop ==
    /\ kpc = "stop"
    /\ \E o \in Outcomes : InFinally("stop", o, "print_stopped")

\* print("Camera stopped and resources released.")
PrintStopped ==
    /\ kpc = "print_stopped"
    /\ \E o \in Outcomes : InFinally("print_stopped", o, "end")

CameraNext ==
    \/ PrintInit
    \/ Construct
    \/ StartPreview
    \/ Start
    \/ PrintWait
    \/ Sleep
    \/ PrintCapturing
    \/ CaptureFile
    \/ PrintDone
    \/ Except
    \/ StopPreview
    \/ Stop
    \/ PrintStopped

SpecCamera == CameraInit /\ [][CameraNext]_vars

\* the methods invoked on picam2 so far, in order
picam2_calls ==
    SelectSeq(executed, LAMBDA m : m \in {"start_preview", "start", "capture_file",
                                            "stop_preview", "stop"})

\* the calls of the finally block among them
CleanupCalls ==
    SelectSeq(picam2_calls, LAMBDA m : m \in {"stop_preview", "stop"})

\* C18: whenever capture_image() has left after constructing picam2, by
\* return or by exception, stop_preview and then stop were each invoked
\* exactly once, and the exception that left it, if any, was not raised
\* inside the try body.
C18_ResourcesReleased ==
    (kpc \in {"returned", "escaped"} /\ pending.origin # "before_try") =>
        /\ CleanupCalls = <<"stop_preview", "stop">>
        /\ ~(kpc = "escaped" /\ pending.origin = "try")

(***************************************************************************)
(* SpecRecorder: start_recording() and stop_recording() of one             *)
(* CameraControl called from MaxThreads threads.  Neither method takes     *)
(* self.lock, and a thread switch can fall between any two statements, so  *)
(* each statement that touches shared state is an action of its own.       *)
(* H264Encoder(), FfmpegOutput(...) and the two camera calls return or     *)
(* raise; a start_encoder / stop_encoder that raises leaves the camera's   *)
(* encoder as it was.                                                      *)
(***************************************************************************)
Returns == {"ok", "raise"}

\* after CameraControl.__init__: self.recording = False, no call in progress
RecorderInit ==
    /\ th_pc = [t \in Threads |-> "idle"]
    /\ recording = FALSE
    /\ encoding = FALSE
    /\ double_start = FALSE
    /\ orphan_stop = FALSE
    /\ ProgramIdle
    /\ CodecIdle
    /\ CameraIdle

\* start_recording(): if not self.recording:
StartCheck(t) ==
    /\ th_pc[t] = "idle"
    /\ th_pc' = [th_pc EXCEPT ![t] = IF ~recording THEN "start_set" ELSE "idle"]
    /\ UNCHANGED <<recording, encoding, double_start, orphan_stop>>
    /\ UNCHANGED <<cvars, mvars, kvars>>

\* self.recording = True
StartSet(t) ==
    /\ th_pc[t] = "start_set"
    /\ recording' = TRUE
    /\ th_pc' = [th_pc EXCEPT ![t] = "start_make"]
    /\ UNCHANGED <<encoding, double_start, orphan_stop>>
    /\ UNCHANGED <<cvars, mvars, kvars>>

\* self.encoder = H264Encoder(); timestamp = ...; self.output =
\* FfmpegOutput(...): an exception ends the call
StartMake(t) ==
    /\ th_pc[t] = "start_make"
    /\ \E o \in Returns :
         th_pc' = [th_pc EXCEPT ![t] = IF o = "ok" THEN "start_encoder" ELSE "idle"]
    /\ UNCHANGED <<recording, encoding, double_start, orphan_stop>>
    /\ UNCHANGED <<cvars, mvars, kvars>>

\* self.camera.start_encoder(self.encoder, self.output)
StartEncoder(t) ==
    /\ th_pc[t] = "start_encoder"
    /\ double_start' = (double_start \/ encoding)
    /\ \E o \in Returns :
         encoding' = IF o = "ok" THEN TRUE ELSE encoding
    /\ th_pc' = [th_pc EXCEPT ![t] = "idle"]
    /\ UNCHANGED <<recording, orphan_stop>>
    /\ UNCHANGED <<cvars, mvars, kvars>>

\* stop_recording(): if self.recording:
StopCheck(t) ==
    /\ th_pc[t] = "idle"
    /\ th_pc' = [th_pc EXCEPT ![t] = IF recording THEN "stop_set" ELSE "idle"]
    /\ UNCHANGED <<recording, encoding, double_start, orphan_stop>>
    /\ UNCHANGED <<cvars, mvars, kvars>>

\* self.recording = False
StopSet(t) ==
    /\ th_pc[t] = "stop_set"
    /\ recording' = FALSE
    /\ th_pc' = [th_pc EXCEPT ![t] = "stop_encoder"]
    /\ UNCHANGED <<encoding, double_start, orphan_stop>>
    /\ UNCHANGED <<cvars, mvars, kvars>>

\* self.camera.stop_encoder()
StopEncoder(t) ==
    /\ th_pc[t] = "stop_encoder"
    /\ orphan_stop' = (orphan_stop \/ ~encoding)
    /\ \E o \in Returns :
         encoding' = IF o = "ok" THEN FALSE ELSE encoding
    /\ th_pc' = [th_pc EXCEPT ![t] = "idle"]
    /\ UNCHANGED <<recording, double_start>>
    /\ UNCHANGED <<cvars, mvars, kvars>>

RecorderNext ==
    \E t \in Threads :
        \/ StartCheck(t)
        \/ StartSet(t)
        \/ StartMake(t)
        \/ StartEncoder(t)
        \/ StopCheck(t)
        \/ StopSet(t)
        \/ StopEncoder(t)

SpecRecorder == RecorderInit /\ [][RecorderNext]_vars

\* C19: under any interleaving of start_recording and stop_recording calls,
\* camera.start_encoder is never invoked while a started encoder has not
\* been stopped, and camera.stop_encoder is never invoked while no encoder
\* is running.
C19_EncoderAlternates == ~double_start /\ ~orphan_stop

\* no start_recording or stop_recording call is in progress
Quiescent == \A t \in Threads : th_pc[t] = "idle"

\* C20: between calls self.recording is True exactly when an encoder has
\* been started and not yet stopped; in particular it is False after a
\* start_recording call in which the encoder was not started.
C20_FlagTracksEncoder == Quiescent => (recording <=> encoding)

=============================================================================
